---------------------------- MODULE Spec2Model ----------------------------
(***************************************************************************)
(* GLWebViewState (Source/WebCore/platform/graphics/android/               *)
(* GLWebViewState.cpp): the per-view compositing state of the tiled        *)
(* renderer.  The module models the object's fields, its public            *)
(* operations and the steps of one drawGL call.                            *)
(*                                                                         *)
(* Rectangles: an IntRect is [x, y, w, h]; an SkRect is [l, t, r, b].      *)
(* Scales are floats in the source; they are held here in tenths           *)
(* (10 stands for 1.0), which keeps equality and the two range tests.      *)
(***************************************************************************)
EXTENDS Integers, FiniteSets, Sequences

(***************************************************************************)
(* LayersRenderingMode, richest to coarsest (the order of the mode[] names *)
(* in setLayersRenderingMode's debug block).                               *)
(***************************************************************************)
kAllTextures ==
    0
kClippedTextures ==
    1
kScrollableAndFixedLayers ==
    2
kFixedLayers ==
    3
kSingleSurfaceRendering ==
    4

Modes == kAllTextures .. kSingleSurfaceRendering

(* The scale range of the two warnings, in tenths. *)
MIN_SCALE_WARNING ==
    1
MAX_SCALE_WARNING ==
    100

(* addDirtyArea's outset and drawGL's outset of the accumulated region. *)
DirtyInflate ==
    8
InvalInflate ==
    1

(***************************************************************************)
(* Bounds of the checked instances.                                        *)
(***************************************************************************)
MaxCoord ==
    2
MaxPos ==
    1
MaxDemand ==
    6
MaxBudget ==
    10
(* setViewport calls of the writer thread *)
MaxCalls == 3
(* selector runs under a held demand and budget *)
MaxRuns == 4
(* the largest count of a held demand *)
MaxSteadyDemand == 2
MaxPairDemand ==
    5

(***************************************************************************)
(* IntRect                                                                 *)
(***************************************************************************)
IntRectOf(x, y, w, h) == [x |-> x, y |-> y, w |-> w, h |-> h]

ZeroRect == IntRectOf(0, 0, 0, 0)

IntMin(a, b) == IF a <= b THEN a ELSE b
IntMax(a, b) == IF a >= b THEN a ELSE b

MaxX(r) == r.x + r.w
MaxY(r) == r.y + r.h

IsEmpty(r) == r.w <= 0 \/ r.h <= 0

Inflate(r, d) == IntRectOf(r.x - d, r.y - d, r.w + d + d, r.h + d + d)

Unite(a, b) ==
    IF IsEmpty(b) THEN a
    ELSE IF IsEmpty(a) THEN b
    ELSE LET l == IntMin(a.x, b.x)
             t == IntMin(a.y, b.y)
             r == IntMax(MaxX(a), MaxX(b))
             bt == IntMax(MaxY(a), MaxY(b))
         IN  IntRectOf(l, t, r - l, bt - t)

IntRectIntersects(a, b) ==
    /\ ~IsEmpty(a)
    /\ ~IsEmpty(b)
    /\ a.x < MaxX(b)
    /\ b.x < MaxX(a)
    /\ a.y < MaxY(b)
    /\ b.y < MaxY(a)

(***************************************************************************)
(* SkRect                                                                  *)
(***************************************************************************)
SkRectOf(l, t, r, b) == [l |-> l, t |-> t, r |-> r, b |-> b]

EmptySkRect == SkRectOf(0, 0, 0, 0)

SkIsEmpty(r) == r.l >= r.r \/ r.t >= r.b

SkIntersects(a, b) ==
    /\ ~SkIsEmpty(a)
    /\ ~SkIsEmpty(b)
    /\ a.l < b.r
    /\ b.l < a.r
    /\ a.t < b.b
    /\ b.t < a.b

(***************************************************************************)
(* State                                                                   *)
(***************************************************************************)
VARIABLES
    m_frameworkLayersInval,   \* IntRect: the accumulated dirty region
    m_isViewportScrolling,
    m_goingDown,
    m_goingLeft,
    m_scale,
    m_viewport,               \* SkRect
    m_layersRenderingMode,
    pc,                       \* "idle", or the position inside drawGL
    frame,                    \* drawGL's arguments, locals and out-parameters
    sel,                      \* the last selector run: its inputs and results
    last,                     \* the last setViewport call: arguments and the state it found
    reported,                 \* rectangles passed to addDirtyArea since the last reset
    shaderNeedsInit,          \* what shader()->needsInit() answers
    transferQueueNeedsInit,   \* what transferQueue()->needsInit() answers
    writer,                   \* a setViewport call running on another thread
    observed,                 \* what a reader on another thread last read
    steady                    \* a demand and budget held over frames, and the modes committed

object == <<m_frameworkLayersInval, m_isViewportScrolling, m_goingDown,
            m_goingLeft, m_scale, m_viewport, m_layersRenderingMode>>
viewportFields == <<m_isViewportScrolling, m_goingDown, m_goingLeft, m_scale,
                    m_viewport>>
gpu == <<shaderNeedsInit, transferQueueNeedsInit>>
threads == <<writer, observed>>
vars == <<m_frameworkLayersInval, m_isViewportScrolling, m_goingDown,
          m_goingLeft, m_scale, m_viewport, m_layersRenderingMode,
          pc, frame, sel, last, reported, shaderNeedsInit,
          transferQueueNeedsInit, writer, observed, steady>>

NoFrame == [active |-> FALSE]
NoSel == [ran |-> FALSE]
NoCall == [op |-> "none"]
NoWriter == [pending |-> {}, call |-> 0, calls |-> {}]
NoRead == [read |-> FALSE]
NoSteady == [on |-> FALSE]

(* The state the constructor leaves. *)
Init ==
    /\ m_frameworkLayersInval = ZeroRect
    /\ m_isViewportScrolling = FALSE
    /\ m_goingDown = TRUE
    /\ m_goingLeft = FALSE
    /\ m_scale = 10
    /\ m_viewport = EmptySkRect
    /\ m_layersRenderingMode = kAllTextures
    /\ pc = "idle"
    /\ frame = NoFrame
    /\ sel = NoSel
    /\ last = NoCall
    /\ reported = {}
    /\ shaderNeedsInit = TRUE
    /\ transferQueueNeedsInit = TRUE
    /\ writer = NoWriter
    /\ observed = NoRead
    /\ steady = NoSteady

(***************************************************************************)
(* setViewport                                                             *)
(***************************************************************************)
ViewportFieldsOf(vp, sc, down, left, scrolling) ==
    [viewport |-> vp, scale |-> sc, goingDown |-> down, goingLeft |-> left,
     isViewportScrolling |-> scrolling]

(* The fields setViewport leaves, from the fields it finds. *)
SetViewportNoEarlyReturn(old, viewport, scale) ==
    ViewportFieldsOf(viewport, scale,
                     old.viewport.t - viewport.t <= 0,
                     old.viewport.l - viewport.l >= 0,
                     old.viewport # viewport /\ SkIntersects(old.viewport, viewport))

SetViewportAnyChange(old, viewport, scale) ==
    IF old.viewport = viewport /\ old.scale = scale
    THEN [old EXCEPT !.isViewportScrolling = FALSE]
    ELSE ViewportFieldsOf(viewport, scale,
                          old.viewport.t - viewport.t <= 0,
                          old.viewport.l - viewport.l >= 0,
                          SkIntersects(old.viewport, viewport))

SetViewportFields(old, viewport, scale) ==
    IF old.viewport = viewport /\ old.scale = scale
    THEN [old EXCEPT !.isViewportScrolling = FALSE]
    ELSE ViewportFieldsOf(viewport, scale,
                          old.viewport.t - viewport.t <= 0,
                          old.viewport.l - viewport.l >= 0,
                          old.viewport # viewport /\ SkIntersects(old.viewport, viewport))

CurrentViewportFields ==
    ViewportFieldsOf(m_viewport, m_scale, m_goingDown, m_goingLeft,
                     m_isViewportScrolling)

StoreViewportFields(new) ==
    /\ m_viewport' = new.viewport
    /\ m_scale' = new.scale
    /\ m_goingDown' = new.goingDown
    /\ m_goingLeft' = new.goingLeft
    /\ m_isViewportScrolling' = new.isViewportScrolling

(* The texture ceiling setViewport first hands to the tile manager        *)
(* (setMaxTextureCount) is state of TilesManager, which nothing here reads. *)
SetViewport(viewport, scale) ==
    /\ pc = "idle"
    /\ StoreViewportFields(SetViewportFields(CurrentViewportFields, viewport, scale))
    /\ last' = [op |-> "setViewport", viewport |-> viewport, scale |-> scale,
                old |-> CurrentViewportFields]
    /\ UNCHANGED <<m_frameworkLayersInval, m_layersRenderingMode, pc, frame,
                   sel, reported>>
    /\ UNCHANGED <<gpu, threads, steady>>

(***************************************************************************)
(* setViewport on a thread of its own, and a reader on another.  The       *)
(* stores to m_scale, to the direction flags and to m_viewport are plain   *)
(* and unordered for another thread.                                       *)
(***************************************************************************)
ViewportStores == {"m_scale", "direction", "m_viewport"}

(* setViewport up to its early return. *)
WriterBegin(viewport, scale) ==
    /\ pc = "idle"
    /\ writer.pending = {}
    /\ writer.call < MaxCalls
    /\ IF m_viewport = viewport /\ m_scale = scale
       THEN /\ m_isViewportScrolling' = FALSE
            /\ writer' = [pending |-> {}, call |-> writer.call + 1,
                          calls |-> writer.calls \cup {<<viewport, scale>>}]
            /\ UNCHANGED <<m_goingDown, m_goingLeft, m_scale, m_viewport>>
       ELSE /\ writer' = [pending |-> ViewportStores,
                          call |-> writer.call + 1,
                          calls |-> writer.calls \cup {<<viewport, scale>>},
                          new |-> SetViewportFields(CurrentViewportFields,
                                                    viewport, scale)]
            /\ UNCHANGED viewportFields
    /\ UNCHANGED <<m_frameworkLayersInval, m_layersRenderingMode, pc, frame,
                   sel, last, reported, gpu, observed, steady>>

(* One of the stores of setViewport becomes visible. *)
WriterStore(field) ==
    /\ field \in writer.pending
    /\ m_scale' = IF field = "m_scale" THEN writer.new.scale ELSE m_scale
    /\ m_viewport' =
         IF field = "m_viewport" THEN writer.new.viewport ELSE m_viewport
    /\ m_goingDown' =
         IF field = "direction" THEN writer.new.goingDown ELSE m_goingDown
    /\ m_goingLeft' =
         IF field = "direction" THEN writer.new.goingLeft ELSE m_goingLeft
    /\ m_isViewportScrolling' =
         IF field = "direction" THEN writer.new.isViewportScrolling
         ELSE m_isViewportScrolling
    /\ writer' =
         IF writer.pending = {field}
         THEN [pending |-> {}, call |-> writer.call, calls |-> writer.calls]
         ELSE [writer EXCEPT !.pending = @ \ {field}]
    /\ UNCHANGED <<m_frameworkLayersInval, m_layersRenderingMode, pc, frame,
                   sel, last, reported, gpu, observed, steady>>

(* viewport() and scale(), read together by another thread. *)
ReaderRead ==
    /\ observed' = [read |-> TRUE, viewport |-> m_viewport, scale |-> m_scale]
    /\ UNCHANGED <<object, pc, frame, sel, last, reported, gpu, writer,
                   steady>>

NextConcurrent ==
    \/ \E v \in {SkRectOf(0, 0, 2, 2), SkRectOf(1, 1, 2, 2)}, s \in {10, 20} :
          WriterBegin(v, s)
    \/ \E f \in ViewportStores : WriterStore(f)
    \/ ReaderRead

SpecConcurrent == Init /\ [][NextConcurrent]_vars

(***************************************************************************)
(* addDirtyArea, resetLayersDirtyArea                                      *)
(***************************************************************************)
AddDirtyAreaNoEmptyCheck(region, rect) ==
    IF IsEmpty(region) THEN Inflate(rect, DirtyInflate)
    ELSE Unite(region, Inflate(rect, DirtyInflate))

(* The accumulated region addDirtyArea(rect) leaves. *)
AddDirtyAreaRegion(region, rect) ==
    IF IsEmpty(rect) THEN region
    ELSE IF IsEmpty(region) THEN Inflate(rect, DirtyInflate)
    ELSE Unite(region, Inflate(rect, DirtyInflate))

(* Called between frames, and by the surface collections while they draw. *)
AddDirtyArea(rect) ==
    /\ pc \in {"idle", "draw"}
    /\ m_frameworkLayersInval' = AddDirtyAreaRegion(m_frameworkLayersInval, rect)
    /\ reported' = reported \cup {rect}
    /\ last' = NoCall
    /\ UNCHANGED <<viewportFields, m_layersRenderingMode, pc, frame, sel>>
    /\ UNCHANGED <<gpu, threads, steady>>

ResetLayersDirtyArea ==
    /\ pc = "idle"
    /\ m_frameworkLayersInval' = ZeroRect
    /\ reported' = {}
    /\ last' = NoCall
    /\ UNCHANGED <<viewportFields, m_layersRenderingMode, pc, frame, sel>>
    /\ UNCHANGED <<gpu, threads, steady>>

(* Rectangles of the addDirtyArea instance: two non-empty sizes at every *)
(* position, and three empty rectangles.                                  *)
DirtyRects ==
    {IntRectOf(x, y, sz[1], sz[2]) :
        x \in 0 .. MaxPos, y \in 0 .. 1, sz \in {<<1, 1>>, <<3, 2>>}}
    \cup {ZeroRect, IntRectOf(1, 1, 3, 0), IntRectOf(0, 1, -1, 2)}

NextDirty ==
    \/ \E r \in DirtyRects : AddDirtyArea(r)
    \/ ResetLayersDirtyArea

SpecDirty == Init /\ [][NextDirty]_vars

(* Viewports of the setViewport instance: sorted or degenerate rectangles. *)
Viewports ==
    {v \in [l : 0 .. MaxCoord, t : 0 .. 2, r : 0 .. MaxCoord, b : 0 .. 2] :
        v.l <= v.r /\ v.t <= v.b}

Scales == {10, 20}

NextViewport ==
    \E v \in Viewports, s \in Scales : SetViewport(v, s)

SpecViewport == Init /\ [][NextViewport]_vars

(***************************************************************************)
(* setLayersRenderingMode                                                  *)
(***************************************************************************)
DemandOf(fixed, scrollable, clipped, full) ==
    [fixed |-> fixed, scrollable |-> scrollable, clipped |-> clipped,
     full |-> full]

ZeroDemand == DemandOf(0, 0, 0, 0)

(* The argument of TilesManager::setMaxLayerTextureCount. *)
RequestedLayerTextures(d) ==
    IF d.full = 0 THEN 0 ELSE 2 * d.full + 1

MaxTexturesNoHalving(prev, budget) ==
    budget

MaxTexturesDoubled(prev, budget) ==
    IF prev = kSingleSurfaceRendering THEN 2 * budget ELSE budget

(* maxTextures: the tile manager's ceiling as read back, halved in *)
(* kSingleSurfaceRendering.                                         *)
MaxTexturesFor(prev, budget) ==
    IF prev = kSingleSurfaceRendering THEN budget \div 2 ELSE budget

CandidateModeInclusive(d, maxTextures) ==
    LET m0 == kSingleSurfaceRendering
        m1 == IF d.fixed <= maxTextures THEN kFixedLayers ELSE m0
        m2 == IF d.scrollable <= maxTextures THEN kScrollableAndFixedLayers ELSE m1
        m3 == IF d.clipped <= maxTextures THEN kClippedTextures ELSE m2
        m4 == IF d.full <= maxTextures THEN kAllTextures ELSE m3
    IN  IF maxTextures = 0 /\ d.full = 0 THEN kAllTextures ELSE m4

CandidateModeReversedTests(d, maxTextures) ==
    LET m0 == kSingleSurfaceRendering
        m1 == IF d.full < maxTextures THEN kAllTextures ELSE m0
        m2 == IF d.clipped < maxTextures THEN kClippedTextures ELSE m1
        m3 == IF d.scrollable < maxTextures THEN kScrollableAndFixedLayers ELSE m2
        m4 == IF d.fixed < maxTextures THEN kFixedLayers ELSE m3
    IN  IF maxTextures = 0 /\ d.full = 0 THEN kAllTextures ELSE m4

(* The mode the four tests and the nothing-to-render case leave. *)
CandidateMode(d, maxTextures) ==
    LET m0 == kSingleSurfaceRendering
        m1 == IF d.fixed < maxTextures THEN kFixedLayers ELSE m0
        m2 == IF d.scrollable < maxTextures THEN kScrollableAndFixedLayers ELSE m1
        m3 == IF d.clipped < maxTextures THEN kClippedTextures ELSE m2
        m4 == IF d.full < maxTextures THEN kAllTextures ELSE m3
    IN  IF maxTextures = 0 /\ d.full = 0 THEN kAllTextures ELSE m4

InvalBaseOnAnyChange(candidate, prev) ==
    candidate # prev

InvalBaseFor(candidate, prev) ==
    \/ candidate < prev /\ candidate # kAllTextures
    \/ candidate > prev /\ candidate # kClippedTextures

ClampModeIdentity(candidate) ==
    candidate

(* Anything below kClippedTextures is kSingleSurfaceRendering. *)
ClampMode(candidate) ==
    IF candidate > kClippedTextures THEN kSingleSurfaceRendering ELSE candidate

(* One run of the selector: the mode it commits and what it returns. *)
SetLayersRenderingModeResult(prev, d, budget) ==
    LET maxTextures == MaxTexturesFor(prev, budget)
        candidate == CandidateMode(d, maxTextures)
        invalBase == InvalBaseFor(candidate, prev)
        mode == ClampMode(candidate)
    IN  [mode |-> mode, candidate |-> candidate, invalBase |-> invalBase,
         maxTextures |-> maxTextures, ret |-> (mode # prev /\ invalBase)]

(* What a selector run leaves on record. *)
SelRecord(prev, d, budget, res) ==
    [ran |-> TRUE, prev |-> prev, demand |-> d, budget |-> budget,
     requested |-> RequestedLayerTextures(d), maxTextures |-> res.maxTextures,
     candidate |-> res.candidate, invalBase |-> res.invalBase, ret |-> res.ret]

(***************************************************************************)
(* drawGL, step by step                                                    *)
(***************************************************************************)
(* The invalidation rectangle the caller hands in. *)
CallerInval == IntRectOf(3, 3, 3, 3)

ScaleOutOfRange(scale) ==
    scale < MIN_SCALE_WARNING \/ scale > MAX_SCALE_WARNING

DrawGL(rect, viewport, scale, shouldDraw) ==
    /\ pc = "idle"
    /\ pc' = "counters"
    /\ frame' = [active |-> TRUE, rect |-> rect, viewport |-> viewport,
                 scale |-> scale, shouldDraw |-> shouldDraw,
                 returnFlags |-> {}, invalRect |-> CallerInval,
                 nbTexturesNeeded |-> ZeroDemand,
                 warnedBefore |-> FALSE, warnedAfter |-> FALSE,
                 profilerFrames |-> 0, drawGLCount |-> 0,
                 imagesPending |-> FALSE, collectionFlags |-> {},
                 steps |-> <<>>]
    /\ sel' = NoSel
    /\ last' = NoCall
    /\ UNCHANGED <<object, reported>>
    /\ UNCHANGED <<gpu, threads, steady>>

(* A step of drawGL that touches none of the object's fields. *)
PlainStep(from, to, name) ==
    /\ pc = from
    /\ pc' = to
    /\ frame' = [frame EXCEPT !.steps = Append(@, name)]
    /\ last' = NoCall
    /\ UNCHANGED <<object, sel, reported>>
    /\ UNCHANGED <<gpu, threads, steady>>

StepCountersOnlyIfShouldDraw ==
    /\ pc = "counters"
    /\ pc' = "reset"
    /\ frame' = [frame EXCEPT
                   !.profilerFrames = IF frame.shouldDraw THEN @ + 1 ELSE @,
                   !.drawGLCount = IF frame.shouldDraw THEN @ + 1 ELSE @,
                   !.steps = Append(@, "counters")]
    /\ last' = NoCall
    /\ UNCHANGED <<object, sel, reported>>
    /\ UNCHANGED <<gpu, threads, steady>>

(* getProfiler()->nextFrame(...) if shouldDraw, then incDrawGLCount(); the *)
(* frame counts the calls this drawGL makes of each.                       *)
StepCounters ==
    /\ pc = "counters"
    /\ pc' = "reset"
    /\ frame' = [frame EXCEPT
                   !.profilerFrames = IF frame.shouldDraw THEN @ + 1 ELSE @,
                   !.drawGLCount = @ + 1,
                   !.steps = Append(@, "counters")]
    /\ last' = NoCall
    /\ UNCHANGED <<object, sel, reported>>
    /\ UNCHANGED <<gpu, threads, steady>>

StepResetKeepsRegion ==
    /\ pc = "reset"
    /\ pc' = "precheck"
    /\ reported' = {}
    /\ frame' = [frame EXCEPT !.steps = Append(@, "reset")]
    /\ last' = NoCall
    /\ UNCHANGED <<object, sel>>
    /\ UNCHANGED <<gpu, threads, steady>>

(* resetLayersDirtyArea(), as drawGL calls it *)
StepReset ==
    /\ pc = "reset"
    /\ pc' = "precheck"
    /\ m_frameworkLayersInval' = ZeroRect
    /\ reported' = {}
    /\ frame' = [frame EXCEPT !.steps = Append(@, "reset")]
    /\ last' = NoCall
    /\ UNCHANGED <<viewportFields, m_layersRenderingMode, sel>>
    /\ UNCHANGED <<gpu, threads, steady>>

PreCheckCrashes ==
    /\ pc = "precheck"
    /\ pc' = IF ScaleOutOfRange(frame.scale) THEN "crashed" ELSE "upload"
    /\ frame' = [frame EXCEPT !.warnedBefore = ScaleOutOfRange(frame.scale),
                              !.steps = Append(@, "precheck")]
    /\ last' = NoCall
    /\ UNCHANGED <<object, sel, reported>>
    /\ UNCHANGED <<gpu, threads, steady>>

(* The check before the upload: a warning, and on. *)
StepPreCheck ==
    /\ pc = "precheck"
    /\ pc' = "upload"
    /\ frame' = [frame EXCEPT !.warnedBefore = ScaleOutOfRange(frame.scale),
                              !.steps = Append(@, "precheck")]
    /\ last' = NoCall
    /\ UNCHANGED <<object, sel, reported>>
    /\ UNCHANGED <<gpu, threads, steady>>

(* transferQueue()->updateDirtyTiles() *)
StepUpdateDirtyTiles == PlainStep("upload", "images", "updateDirtyTiles")

(* ImagesManager::prepareTextures: true when images are left to upload. *)
StepPrepareTextures ==
    /\ pc = "images"
    /\ pc' = "postcheck"
    /\ \E more \in BOOLEAN :
         frame' = [frame EXCEPT
                     !.returnFlags = IF more THEN {"draw"} ELSE {},
                     !.imagesPending = more,
                     !.steps = Append(@, "prepareTextures")]
    /\ last' = NoCall
    /\ UNCHANGED <<object, sel, reported>>
    /\ UNCHANGED <<gpu, threads, steady>>

(* The check after the upload: a warning and CRASH(). *)
StepPostCheck ==
    /\ pc = "postcheck"
    /\ pc' = IF ScaleOutOfRange(frame.scale) THEN "crashed" ELSE "gather"
    /\ frame' = [frame EXCEPT !.warnedAfter = ScaleOutOfRange(frame.scale),
                              !.steps = Append(@, "postcheck")]
    /\ last' = NoCall
    /\ UNCHANGED <<object, sel, reported>>
    /\ UNCHANGED <<gpu, threads, steady>>

StepGatherTextures == PlainStep("gather", "setup", "gatherTextures")

(* setupDrawing: initGLResources of the shader and of the transfer queue *)
(* where needsInit, the GL viewport, then setViewport.                   *)
StepSetupDrawing ==
    /\ pc = "setup"
    /\ pc' = "draw"
    /\ StoreViewportFields(SetViewportFields(CurrentViewportFields,
                                             frame.viewport, frame.scale))
    /\ last' = [op |-> "setViewport", viewport |-> frame.viewport,
                scale |-> frame.scale, old |-> CurrentViewportFields]
    /\ frame' = [frame EXCEPT !.steps = Append(@, "setupDrawing")]
    /\ shaderNeedsInit' = FALSE
    /\ transferQueueNeedsInit' = FALSE
    /\ UNCHANGED <<m_frameworkLayersInval, m_layersRenderingMode, sel, reported>>
    /\ UNCHANGED <<threads, steady>>

StepCollectionsDrawOverwrites(flags, d, nbTexturesForImages) ==
    /\ pc = "draw"
    /\ pc' = "selector"
    /\ frame' = [frame EXCEPT
                   !.returnFlags = flags,
                   !.collectionFlags = flags,
                   !.nbTexturesNeeded =
                       [d EXCEPT !.full = @ + nbTexturesForImages,
                                 !.clipped = @ + nbTexturesForImages],
                   !.steps = Append(@, "collectionsDraw")]
    /\ last' = NoCall
    /\ UNCHANGED <<object, sel, reported>>
    /\ UNCHANGED <<gpu, threads, steady>>

(* m_surfaceCollectionManager.drawGL returns its flags and the demand; the *)
(* image manager's texture count goes into full and clipped.               *)
StepCollectionsDraw(flags, d, nbTexturesForImages) ==
    /\ pc = "draw"
    /\ pc' = "selector"
    /\ frame' = [frame EXCEPT
                   !.returnFlags = @ \cup flags,
                   !.collectionFlags = flags,
                   !.nbTexturesNeeded =
                       [d EXCEPT !.full = @ + nbTexturesForImages,
                                 !.clipped = @ + nbTexturesForImages],
                   !.steps = Append(@, "collectionsDraw")]
    /\ last' = NoCall
    /\ UNCHANGED <<object, sel, reported>>
    /\ UNCHANGED <<gpu, threads, steady>>

(* setLayersRenderingMode(nbTexturesNeeded); budget is what the tile *)
(* manager's maxLayerTextureCount() reads back.                       *)
StepSelector(budget) ==
    /\ pc = "selector"
    /\ pc' = "video"
    /\ LET res == SetLayersRenderingModeResult(m_layersRenderingMode,
                                               frame.nbTexturesNeeded, budget)
       IN  /\ m_layersRenderingMode' = res.mode
           /\ sel' = SelRecord(m_layersRenderingMode, frame.nbTexturesNeeded,
                               budget, res)
           /\ frame' = [frame EXCEPT
                          !.returnFlags =
                              IF res.ret THEN @ \cup {"draw", "invoke"} ELSE @,
                          !.steps = Append(@, "selector")]
           /\ steady' = IF steady.on
                         THEN [steady EXCEPT !.modes = Append(@, res.mode)]
                         ELSE steady
    /\ last' = NoCall
    /\ UNCHANGED <<m_frameworkLayersInval, viewportFields, reported>>
    /\ UNCHANGED <<gpu, threads>>

(* glBindBuffer, videoLayerManager()->deleteUnusedTextures() *)
StepDeleteUnusedTextures == PlainStep("video", "inval", "deleteUnusedTextures")

InvalResultOf(region, invalRect) ==
    [region |-> region, invalRect |-> invalRect]

PostDrawInvalNoOffscreenCheck(region, rect, invalRect, needsDraw) ==
    IF ~needsDraw THEN InvalResultOf(region, invalRect)
    ELSE IF IsEmpty(region) THEN InvalResultOf(region, ZeroRect)
    ELSE InvalResultOf(Inflate(region, InvalInflate),
                       Inflate(region, InvalInflate))

PostDrawInvalKeepsCallerRect(region, rect, invalRect, needsDraw) ==
    IF ~needsDraw THEN InvalResultOf(region, invalRect)
    ELSE IF IsEmpty(region) THEN InvalResultOf(region, invalRect)
    ELSE LET inflated == Inflate(region, InvalInflate)
         IN  IF IntRectIntersects(inflated, rect)
             THEN InvalResultOf(inflated, inflated)
             ELSE InvalResultOf(inflated, ZeroRect)

(* The end of drawGL: the accumulated region and the caller's rectangle. *)
PostDrawInval(region, rect, invalRect, needsDraw) ==
    IF ~needsDraw THEN InvalResultOf(region, invalRect)
    ELSE IF IsEmpty(region) THEN InvalResultOf(region, ZeroRect)
    ELSE LET inflated == Inflate(region, InvalInflate)
         IN  IF IntRectIntersects(inflated, rect)
             THEN InvalResultOf(inflated, inflated)
             ELSE InvalResultOf(inflated, ZeroRect)

StepInval ==
    /\ pc = "inval"
    /\ pc' = "overlay"
    /\ LET res == PostDrawInval(m_frameworkLayersInval, frame.rect,
                                frame.invalRect, "draw" \in frame.returnFlags)
       IN  /\ m_frameworkLayersInval' = res.region
           /\ frame' = [frame EXCEPT !.invalRect = res.invalRect,
                                     !.steps = Append(@, "inval")]
    /\ last' = NoCall
    /\ UNCHANGED <<viewportFields, m_layersRenderingMode, sel, reported>>
    /\ UNCHANGED <<gpu, threads, steady>>

StepOverlayAlways ==
    /\ pc = "overlay"
    /\ pc' = "ret"
    /\ frame' = [frame EXCEPT !.steps = Append(@, "showFrameInfo")]
    /\ last' = NoCall
    /\ UNCHANGED <<object, sel, reported>>
    /\ UNCHANGED <<gpu, threads, steady>>

(* showFrameInfo, if shouldDraw *)
StepOverlay ==
    /\ pc = "overlay"
    /\ pc' = "ret"
    /\ frame' = [frame EXCEPT
                   !.steps = IF frame.shouldDraw THEN Append(@, "showFrameInfo")
                             ELSE @]
    /\ last' = NoCall
    /\ UNCHANGED <<object, sel, reported>>
    /\ UNCHANGED <<gpu, threads, steady>>

DrawGLReturn ==
    /\ pc = "ret"
    /\ pc' = "idle"
    /\ frame' = NoFrame
    /\ sel' = NoSel
    /\ last' = NoCall
    /\ UNCHANGED <<object, reported>>
    /\ UNCHANGED <<gpu, threads, steady>>

(***************************************************************************)
(* setBaseLayer, setupDrawing, scrollLayer, the loss of the GL context     *)
(***************************************************************************)
SetBaseLayerAlwaysResets(hasLayer, isPictureAfterFirstLayout) ==
    /\ pc = "idle"
    /\ m_layersRenderingMode' = kAllTextures
    /\ last' = [op |-> "setBaseLayer", layer |-> hasLayer,
                isPictureAfterFirstLayout |-> isPictureAfterFirstLayout,
                old |-> m_layersRenderingMode]
    /\ UNCHANGED <<m_frameworkLayersInval, viewportFields, pc, frame, sel,
                   reported>>
    /\ UNCHANGED <<gpu, threads, steady>>

SetBaseLayer(hasLayer, isPictureAfterFirstLayout) ==
    /\ pc = "idle"
    /\ m_layersRenderingMode' =
         IF ~hasLayer \/ isPictureAfterFirstLayout THEN kAllTextures
         ELSE m_layersRenderingMode
    /\ last' = [op |-> "setBaseLayer", layer |-> hasLayer,
                isPictureAfterFirstLayout |-> isPictureAfterFirstLayout,
                old |-> m_layersRenderingMode]
    /\ UNCHANGED <<m_frameworkLayersInval, viewportFields, pc, frame, sel,
                   reported>>
    /\ UNCHANGED <<gpu, threads, steady>>

(* setupDrawing called by the owner of the view, outside drawGL. *)
SetupDrawing(visibleRect, scale) ==
    /\ pc = "idle"
    /\ shaderNeedsInit' = FALSE
    /\ transferQueueNeedsInit' = FALSE
    /\ StoreViewportFields(SetViewportFields(CurrentViewportFields,
                                             visibleRect, scale))
    /\ last' = [op |-> "setViewport", viewport |-> visibleRect,
                scale |-> scale, old |-> CurrentViewportFields]
    /\ UNCHANGED <<m_frameworkLayersInval, m_layersRenderingMode, pc, frame,
                   sel, reported>>
    /\ UNCHANGED <<threads, steady>>

(* scrollLayer only forwards to the surface collection manager. *)
ScrollLayer ==
    /\ pc = "idle"
    /\ last' = [op |-> "scrollLayer"]
    /\ UNCHANGED <<object, pc, frame, sel, reported>>
    /\ UNCHANGED <<gpu, threads, steady>>

(* The EGL context is recreated between two frames: the shader and the *)
(* transfer queue need their GL resources again.                       *)
ContextLost ==
    /\ pc = "idle"
    /\ ~shaderNeedsInit
    /\ ~transferQueueNeedsInit
    /\ shaderNeedsInit' = TRUE
    /\ transferQueueNeedsInit' = TRUE
    /\ last' = NoCall
    /\ UNCHANGED <<object, pc, frame, sel, reported>>
    /\ UNCHANGED <<threads, steady>>

(***************************************************************************)
(* The whole object                                                        *)
(***************************************************************************)
DrawRects == {IntRectOf(0, 0, 20, 20), IntRectOf(30, 30, 20, 20)}
DrawViewports == {SkRectOf(0, 0, 2, 2), SkRectOf(1, 1, 2, 2)}
DrawScales == {0, 10, 100, 101}
FrameDirtyRects == {ZeroRect, IntRectOf(5, 5, 2, 2), IntRectOf(40, 40, 2, 2)}
FrameDemands == {ZeroDemand, DemandOf(1, 2, 3, 4), DemandOf(0, 0, 3, 6),
                 DemandOf(5, 5, 6, 6)}
FrameBudgets == {0, 5, 10}

Next ==
    \/ \E v \in DrawViewports, s \in {10, 100} : SetViewport(v, s)
    \/ \E r \in FrameDirtyRects : AddDirtyArea(r)
    \/ ResetLayersDirtyArea
    \/ \E hasLayer \in BOOLEAN, first \in BOOLEAN : SetBaseLayer(hasLayer, first)
    \/ \E v \in DrawViewports, s \in {10, 100} : SetupDrawing(v, s)
    \/ ScrollLayer
    \/ ContextLost
    \/ \E r \in DrawRects, v \in DrawViewports, s \in DrawScales,
          shouldDraw \in BOOLEAN : DrawGL(r, v, s, shouldDraw)
    \/ StepCounters
    \/ StepReset
    \/ StepPreCheck
    \/ StepUpdateDirtyTiles
    \/ StepPrepareTextures
    \/ StepPostCheck
    \/ StepGatherTextures
    \/ StepSetupDrawing
    \/ \E flags \in SUBSET {"draw", "invoke"}, d \in FrameDemands,
          n \in 0 .. 1 : StepCollectionsDraw(flags, d, n)
    \/ \E b \in FrameBudgets : StepSelector(b)
    \/ StepDeleteUnusedTextures
    \/ StepInval
    \/ StepOverlay
    \/ DrawGLReturn

Spec == Init /\ [][Next]_vars

(***************************************************************************)
(* The selector alone: drawGL stands at its call of setLayersRenderingMode *)
(* with any demand, in any mode the selector can have left.                *)
(***************************************************************************)
Demands ==
    [fixed : 0 .. MaxDemand, scrollable : 0 .. MaxDemand,
     clipped : 0 .. MaxDemand, full : 0 .. MaxDemand]

SelectorStart(demands) ==
    /\ m_frameworkLayersInval = ZeroRect
    /\ m_isViewportScrolling = FALSE
    /\ m_goingDown = TRUE
    /\ m_goingLeft = TRUE
    /\ m_scale = 10
    /\ m_viewport = SkRectOf(0, 0, 2, 2)
    /\ m_layersRenderingMode \in
         {kAllTextures, kClippedTextures, kSingleSurfaceRendering}
    /\ pc = "selector"
    /\ \E d \in demands :
         frame = [active |-> TRUE, rect |-> IntRectOf(0, 0, 20, 20),
                  viewport |-> SkRectOf(0, 0, 2, 2), scale |-> 10,
                  shouldDraw |-> TRUE, returnFlags |-> {},
                  invalRect |-> CallerInval, nbTexturesNeeded |-> d,
                  warnedBefore |-> FALSE, warnedAfter |-> FALSE,
                  profilerFrames |-> 1, drawGLCount |-> 1,
                  imagesPending |-> FALSE, collectionFlags |-> {},
                  steps |-> <<"counters", "reset", "precheck",
                              "updateDirtyTiles", "prepareTextures",
                              "postcheck", "gatherTextures", "setupDrawing",
                              "collectionsDraw">>]
    /\ sel = NoSel
    /\ last = NoCall
    /\ reported = {}
    /\ shaderNeedsInit = FALSE
    /\ transferQueueNeedsInit = FALSE
    /\ writer = NoWriter
    /\ observed = NoRead
    /\ steady = NoSteady

InitSelector == SelectorStart(Demands)

NextSelector ==
    \E b \in 0 .. MaxBudget : StepSelector(b)

SpecSelector == InitSelector /\ [][NextSelector]_vars

(* The same, over the smaller demands that the comparison of two demands *)
(* ranges over.                                                           *)
PairDemands ==
    [fixed : 0 .. MaxPairDemand, scrollable : 0 .. MaxPairDemand,
     clipped : 0 .. MaxPairDemand, full : 0 .. MaxPairDemand]

InitSelectorPairs == SelectorStart(PairDemands)

SpecSelectorPairs == InitSelectorPairs /\ [][NextSelector]_vars

(***************************************************************************)
(* Frames under a demand and a read-back budget that stay the same: the    *)
(* surface collections report steady.demand in every frame, the tile       *)
(* manager reads back steady.budget, and setBaseLayer is not called.       *)
(***************************************************************************)
SteadyDemands ==
    [fixed : 0 .. MaxSteadyDemand, scrollable : 0 .. MaxSteadyDemand,
     clipped : 0 .. MaxSteadyDemand, full : 0 .. MaxSteadyDemand]

InitSteady ==
    /\ m_frameworkLayersInval = ZeroRect
    /\ m_isViewportScrolling = FALSE
    /\ m_goingDown = TRUE
    /\ m_goingLeft = FALSE
    /\ m_scale = 10
    /\ m_viewport = EmptySkRect
    /\ m_layersRenderingMode \in
         {kAllTextures, kClippedTextures, kSingleSurfaceRendering}
    /\ pc = "idle"
    /\ frame = NoFrame
    /\ sel = NoSel
    /\ last = NoCall
    /\ reported = {}
    /\ shaderNeedsInit = TRUE
    /\ transferQueueNeedsInit = TRUE
    /\ writer = NoWriter
    /\ observed = NoRead
    /\ \E d \in SteadyDemands, b \in 0 .. MaxBudget :
         steady = [on |-> TRUE, demand |-> d, budget |-> b,
                   start |-> m_layersRenderingMode, modes |-> <<>>]

NextSteady ==
    \/ /\ Len(steady.modes) < MaxRuns
       /\ DrawGL(IntRectOf(0, 0, 20, 20), SkRectOf(0, 0, 2, 2), 10, TRUE)
    \/ StepCounters
    \/ StepReset
    \/ StepPreCheck
    \/ StepUpdateDirtyTiles
    \/ StepPrepareTextures
    \/ StepPostCheck
    \/ StepGatherTextures
    \/ StepSetupDrawing
    \/ StepCollectionsDraw({}, steady.demand, 0)
    \/ StepSelector(steady.budget)
    \/ StepDeleteUnusedTextures
    \/ StepInval
    \/ StepOverlay
    \/ DrawGLReturn

SpecSteady == InitSteady /\ [][NextSteady]_vars

(***************************************************************************)
(* Properties of the selector (checked under SpecSelector)                 *)
(***************************************************************************)
(* The demand count a mode needs to fit the budget. *)
DemandCount(d, m) ==
    CASE m = kAllTextures -> d.full
      [] m = kClippedTextures -> d.clipped
      [] m = kScrollableAndFixedLayers -> d.scrollable
      [] m = kFixedLayers -> d.fixed

FittingModes(d, maxTextures) ==
    {m \in kAllTextures .. kFixedLayers : DemandCount(d, m) < maxTextures}

RichestFit(d, maxTextures) ==
    IF maxTextures = 0 /\ d.full = 0 THEN kAllTextures
    ELSE IF FittingModes(d, maxTextures) = {} THEN kSingleSurfaceRendering
    ELSE CHOOSE m \in FittingModes(d, maxTextures) :
            \A n \in FittingModes(d, maxTextures) : m <= n

HalvedBudget(prev, budget) ==
    IF prev = kSingleSurfaceRendering
    THEN CHOOSE q \in 0 .. budget : 2 * q <= budget /\ budget < 2 * q + 2
    ELSE budget

(* C1: one selector run commits the richest mode whose demand is strictly  *)
(* below maxTextures (the read-back budget, halved when the previous mode  *)
(* is kSingleSurfaceRendering), kSingleSurfaceRendering if none fits,      *)
(* kAllTextures if maxTextures = 0 and full = 0; a candidate coarser than  *)
(* kClippedTextures is committed as kSingleSurfaceRendering.               *)
C1_SelectorCommitsRichestFit ==
    sel.ran =>
        LET c == RichestFit(sel.demand, HalvedBudget(sel.prev, sel.budget))
        IN  /\ sel.candidate = c
            /\ m_layersRenderingMode =
                 IF c > kClippedTextures THEN kSingleSurfaceRendering ELSE c

C1_Witness ==
    /\ sel.ran
    /\ sel.prev = kAllTextures
    /\ sel.candidate = kFixedLayers
    /\ m_layersRenderingMode = kSingleSurfaceRendering

(* C2 as stated: in kSingleSurfaceRendering with a budget of 10, a demand  *)
(* of 6 full textures keeps kSingleSurfaceRendering and a demand of 4 full *)
(* textures moves to a richer mode.                                        *)
C2_HysteresisAsStated ==
    (sel.ran /\ sel.prev = kSingleSurfaceRendering /\ sel.budget = 10) =>
        /\ sel.demand.full = 6 =>
             m_layersRenderingMode = kSingleSurfaceRendering
        /\ sel.demand.full = 4 =>
             m_layersRenderingMode < kSingleSurfaceRendering

(* C2 amended: in kSingleSurfaceRendering with a budget of 10, a demand of *)
(* 6 full textures never reaches kAllTextures: the mode stays              *)
(* kSingleSurfaceRendering when the clipped demand is 5 or more and        *)
(* becomes kClippedTextures when it is below 5; a demand of 4 full         *)
(* textures moves the mode to kAllTextures.                                *)
C2_Hysteresis ==
    (sel.ran /\ sel.prev = kSingleSurfaceRendering /\ sel.budget = 10) =>
        /\ sel.demand.full = 6 =>
             m_layersRenderingMode =
                 IF sel.demand.clipped < 5 THEN kClippedTextures
                 ELSE kSingleSurfaceRendering
        /\ sel.demand.full = 4 => m_layersRenderingMode = kAllTextures

C2_Witness ==
    /\ sel.ran
    /\ sel.prev = kSingleSurfaceRendering
    /\ sel.budget = 10
    /\ sel.demand.full = 6
    /\ sel.demand.clipped = 4
    /\ m_layersRenderingMode = kClippedTextures

(* C3: for the same previous mode and read-back budget, a demand that is   *)
(* component-wise no larger never commits a coarser mode.                  *)
C3_MonotonicInDemand ==
    sel.ran =>
        \A d \in [fixed : 0 .. sel.demand.fixed,
                  scrollable : 0 .. sel.demand.scrollable,
                  clipped : 0 .. sel.demand.clipped,
                  full : 0 .. sel.demand.full] :
            SetLayersRenderingModeResult(sel.prev, d, sel.budget).mode
                <= m_layersRenderingMode

C3_Witness ==
    /\ sel.ran
    /\ m_layersRenderingMode = kClippedTextures
    /\ sel.demand = DemandOf(4, 4, 3, 4)
    /\ SetLayersRenderingModeResult(sel.prev, DemandOf(4, 4, 3, 2),
                                    sel.budget).mode = kAllTextures

(* C4: the selector returns true exactly when the committed mode differs   *)
(* from the previous one and invalBase is set: the candidate is strictly   *)
(* richer than the previous mode and not kAllTextures, or strictly coarser *)
(* and not kClippedTextures.  It never returns true on no change.          *)
C4_SignalOnBoundaries ==
    sel.ran =>
        LET richer == sel.candidate < sel.prev
            coarser == sel.candidate > sel.prev
            invalBase == \/ richer /\ sel.candidate # kAllTextures
                         \/ coarser /\ sel.candidate # kClippedTextures
        IN  /\ sel.invalBase = invalBase
            /\ sel.ret = (m_layersRenderingMode # sel.prev /\ invalBase)
            /\ m_layersRenderingMode = sel.prev => ~sel.ret

C4_Witness ==
    /\ sel.ran
    /\ sel.prev = kSingleSurfaceRendering
    /\ sel.candidate = kFixedLayers
    /\ sel.invalBase
    /\ ~sel.ret
    /\ m_layersRenderingMode = kSingleSurfaceRendering

(***************************************************************************)
(* Properties of drawGL (checked under Spec)                               *)
(***************************************************************************)
SetMin(S) == CHOOSE m \in S : \A n \in S : m <= n
SetMax(S) == CHOOSE m \in S : \A n \in S : m >= n

(* The bounding rectangle of the non-empty rectangles of S, each outset by *)
(* the dirty margin; the zero rectangle when there is none.                *)
BoundingUnion(S) ==
    LET ne == {r \in S : r.w > 0 /\ r.h > 0}
        l == SetMin({r.x - DirtyInflate : r \in ne})
        t == SetMin({r.y - DirtyInflate : r \in ne})
        rt == SetMax({r.x + r.w + DirtyInflate : r \in ne})
        bt == SetMax({r.y + r.h + DirtyInflate : r \in ne})
    IN  IF ne = {} THEN ZeroRect ELSE IntRectOf(l, t, rt - l, bt - t)

Outset(r, d) == [x |-> r.x - d, y |-> r.y - d, w |-> r.w + 2 * d, h |-> r.h + 2 * d]

(* Two integer rectangles share a unit cell. *)
Overlap(a, b) ==
    /\ (a.x .. a.x + a.w - 1) \cap (b.x .. b.x + b.w - 1) # {}
    /\ (a.y .. a.y + a.h - 1) \cap (b.y .. b.y + b.h - 1) # {}

(* The rectangle of the cells two overlapping rectangles share. *)
Intersection(a, b) ==
    LET xs == (a.x .. a.x + a.w - 1) \cap (b.x .. b.x + b.w - 1)
        ys == (a.y .. a.y + a.h - 1) \cap (b.y .. b.y + b.h - 1)
    IN  IntRectOf(SetMin(xs), SetMin(ys), Cardinality(xs), Cardinality(ys))

DrawGLEndsNeedingDraw ==
    pc = "ret" /\ "draw" \in frame.returnFlags

(* C5 as stated: when drawGL ends needing a draw, the invalidation         *)
(* rectangle is (0,0,0,0) if the accumulated region is empty or, outset by *)
(* 1, does not overlap the draw rectangle; otherwise it is the region       *)
(* outset by 1 and intersected with the draw rectangle.                    *)
C5_InvalRectAsStated ==
    DrawGLEndsNeedingDraw =>
        LET acc == BoundingUnion(reported)
            out == Outset(acc, InvalInflate)
        IN  frame.invalRect =
                IF acc = ZeroRect THEN ZeroRect
                ELSE IF ~Overlap(out, frame.rect) THEN ZeroRect
                ELSE Intersection(out, frame.rect)

(* C5 amended: ... otherwise it is the region outset by 1, not clipped to  *)
(* the draw rectangle.                                                     *)
C5_InvalRect ==
    DrawGLEndsNeedingDraw =>
        LET acc == BoundingUnion(reported)
            out == Outset(acc, InvalInflate)
        IN  frame.invalRect =
                IF acc = ZeroRect THEN ZeroRect
                ELSE IF ~Overlap(out, frame.rect) THEN ZeroRect
                ELSE out

C5_Witness ==
    /\ DrawGLEndsNeedingDraw
    /\ reported # {}
    /\ frame.invalRect # ZeroRect
    /\ frame.invalRect.x < frame.rect.x

Contains(seq, e) == \E i \in 1 .. Len(seq) : seq[i] = e

(* C6: an out-of-range scale met by the check before the upload is logged  *)
(* and drawGL goes on to the upload; only the check after the upload       *)
(* aborts.                                                                 *)
C6_OnlyPostCheckAborts ==
    frame.active =>
        /\ (Contains(frame.steps, "precheck") /\ ScaleOutOfRange(frame.scale))
             => frame.warnedBefore
        /\ (frame.warnedBefore /\ ~Contains(frame.steps, "postcheck"))
             => pc \in {"upload", "images", "postcheck"}
        /\ pc = "crashed" =>
             /\ frame.warnedAfter
             /\ Len(frame.steps) = 6
             /\ frame.steps[4] = "updateDirtyTiles"
             /\ frame.steps[5] = "prepareTextures"
             /\ frame.steps[6] = "postcheck"

C6_Witness ==
    /\ pc = "postcheck"
    /\ frame.warnedBefore
    /\ frame.scale > MAX_SCALE_WARNING
    /\ Contains(frame.steps, "updateDirtyTiles")
    /\ Contains(frame.steps, "prepareTextures")

(***************************************************************************)
(* Properties of setViewport (checked under SpecViewport)                  *)
(***************************************************************************)
(* Two integer-cornered SkRects share a unit cell. *)
SkOverlap(a, b) ==
    \E x \in IntMin(a.l, b.l) .. IntMax(a.r, b.r),
       y \in IntMin(a.t, b.t) .. IntMax(a.b, b.b) :
        /\ a.l <= x /\ x + 1 <= a.r /\ b.l <= x /\ x + 1 <= b.r
        /\ a.t <= y /\ y + 1 <= a.b /\ b.t <= y /\ y + 1 <= b.b

(* C7: after setViewport(rect, scale), isViewportScrolling holds exactly   *)
(* when rect differs from the rectangle stored before and overlaps it: not *)
(* after a jump to a disjoint rectangle, not after a repeated pair.        *)
C7_ViewportScrolling ==
    last.op = "setViewport" =>
        /\ m_isViewportScrolling =
             (last.viewport # last.old.viewport
                /\ SkOverlap(last.old.viewport, last.viewport))
        /\ ~SkOverlap(last.old.viewport, last.viewport)
             => ~m_isViewportScrolling
        /\ (last.viewport = last.old.viewport /\ last.scale = last.old.scale)
             => ~m_isViewportScrolling

C7_Witness ==
    /\ last.op = "setViewport"
    /\ m_isViewportScrolling
    /\ last.viewport # last.old.viewport
    /\ last.old.isViewportScrolling = FALSE

(* C8: setViewport with the stored (rect, scale) pair leaves goingDown,    *)
(* goingLeft, the viewport and the scale as they were and clears           *)
(* isViewportScrolling.                                                    *)
C8_RepeatedViewport ==
    (/\ last.op = "setViewport"
     /\ last.viewport = last.old.viewport
     /\ last.scale = last.old.scale) =>
        /\ m_goingDown = last.old.goingDown
        /\ m_goingLeft = last.old.goingLeft
        /\ m_viewport = last.old.viewport
        /\ m_scale = last.old.scale
        /\ m_isViewportScrolling = FALSE

C8_Witness ==
    /\ last.op = "setViewport"
    /\ last.viewport = last.old.viewport
    /\ last.scale = last.old.scale
    /\ last.old.isViewportScrolling
    /\ ~m_isViewportScrolling
    /\ ~m_goingDown
    /\ ~m_goingLeft

(***************************************************************************)
(* Properties of the dirty region                                          *)
(***************************************************************************)
(* C9 (under SpecDirty): from a reset region, the region after any         *)
(* addDirtyArea calls depends only on the set of rectangles passed: it is  *)
(* the bounding union of the non-empty ones, each outset by 8; empty       *)
(* rectangles leave it as it is.                                           *)
C9_OrderIndependent ==
    /\ m_frameworkLayersInval = BoundingUnion(reported)
    /\ (\A r \in reported : r.w <= 0 \/ r.h <= 0)
         => m_frameworkLayersInval = ZeroRect

C9_Witness ==
    /\ Cardinality({r \in reported : ~IsEmpty(r)}) >= 3
    /\ \E r \in reported : IsEmpty(r)
    /\ \A r \in reported : m_frameworkLayersInval # Outset(r, DirtyInflate)
    /\ m_frameworkLayersInval = BoundingUnion(reported)

(* C10 (under Spec): in every state the accumulated region is the          *)
(* rectangle union of what addDirtyArea was passed since the last reset.   *)
C10_RegionIsUnionOfReports ==
    /\ ~IsEmpty(m_frameworkLayersInval) => reported # {}
    /\ m_frameworkLayersInval = BoundingUnion(reported)

Occurrences(seq, e) == Cardinality({i \in 1 .. Len(seq) : seq[i] = e})

IndexOf(seq, e) == CHOOSE i \in 1 .. Len(seq) : seq[i] = e

(* C11 (under Spec): a drawGL call resets the dirty region exactly once,   *)
(* before the surface collections draw; from the reset to the end of the   *)
(* call the region is the union of the rectangles addDirtyArea was passed  *)
(* since that reset, and the invalidation rectangle of a call that ends    *)
(* needing a draw reflects those rectangles only.                          *)
C11_ResetOncePerFrame ==
    frame.active =>
        /\ Occurrences(frame.steps, "reset") =
              (IF pc \in {"counters", "reset"} THEN 0 ELSE 1)
        /\ Contains(frame.steps, "collectionsDraw") =>
              IndexOf(frame.steps, "reset")
                  < IndexOf(frame.steps, "collectionsDraw")
        /\ pc \in {"precheck", "upload", "images", "postcheck", "gather",
                   "setup", "draw", "selector", "video", "inval"} =>
              m_frameworkLayersInval = BoundingUnion(reported)
        /\ DrawGLEndsNeedingDraw =>
              frame.invalRect \in
                  {ZeroRect, Outset(BoundingUnion(reported), InvalInflate)}

C11_Witness ==
    /\ DrawGLEndsNeedingDraw
    /\ Occurrences(frame.steps, "reset") = 1
    /\ Cardinality({r \in reported : ~IsEmpty(r)}) = 2
    /\ frame.invalRect = Outset(BoundingUnion(reported), InvalInflate)

(* C12 as stated (under Spec): a step that changes the rendering mode is   *)
(* the selector run inside drawGL.                                         *)
C12_OnlySelectorMutatesMode ==
    [][m_layersRenderingMode' # m_layersRenderingMode => pc = "selector"]_vars

(* C12 amended: a step that changes the rendering mode is the selector run *)
(* inside drawGL, or setBaseLayer called without a layer or with           *)
(* isPictureAfterFirstLayout, which sets kAllTextures; every other step    *)
(* leaves the mode as it was.                                              *)
C12_ModeMutators ==
    [][m_layersRenderingMode' # m_layersRenderingMode =>
          \/ pc = "selector"
          \/ /\ last'.op = "setBaseLayer"
             /\ ~last'.layer \/ last'.isPictureAfterFirstLayout
             /\ m_layersRenderingMode' = kAllTextures]_vars

C12_Witness ==
    /\ last.op = "setBaseLayer"
    /\ last.old = kSingleSurfaceRendering
    /\ last.layer
    /\ last.isPictureAfterFirstLayout
    /\ m_layersRenderingMode = kAllTextures

(* C13 (under SpecConcurrent): the viewport and scale a reader sees        *)
(* together are those of the constructor or the arguments of one           *)
(* setViewport call.                                                       *)
C13_NoTornRead ==
    observed.read =>
        <<observed.viewport, observed.scale>>
            \in writer.calls \cup {<<EmptySkRect, 10>>}

ListedSteps ==
    {"reset", "updateDirtyTiles", "prepareTextures", "gatherTextures",
     "setupDrawing", "collectionsDraw", "selector", "deleteUnusedTextures",
     "inval", "showFrameInfo"}

IsListedStep(e) == e \in ListedSteps

StepOrder(shouldDraw) ==
    <<"reset", "updateDirtyTiles", "prepareTextures", "gatherTextures",
      "setupDrawing", "collectionsDraw", "selector", "deleteUnusedTextures",
      "inval">> \o (IF shouldDraw THEN <<"showFrameInfo">> ELSE <<>>)

IsPrefix(a, b) ==
    Len(a) <= Len(b) /\ \A i \in 1 .. Len(a) : a[i] = b[i]

C15_InitBeforeUpload ==
    [][(pc = "upload" /\ pc' = "images") =>
          (~shaderNeedsInit /\ ~transferQueueNeedsInit)]_vars

(* C16 as stated (under Spec): a drawGL call with shouldDraw false         *)
(* advances neither the profiler's frame boundary nor the tile manager's   *)
(* draw count.                                                             *)
C16_CountersOnlyWhenShouldDraw ==
    (frame.active /\ ~frame.shouldDraw) =>
        /\ frame.profilerFrames = 0
        /\ frame.drawGLCount = 0

(* C16 amended: a drawGL call advances the profiler's frame boundary once  *)
(* if shouldDraw and not at all otherwise; it advances the tile manager's  *)
(* draw count once, whatever shouldDraw is.                                *)
C16_Counters ==
    (frame.active /\ pc # "counters") =>
        /\ frame.profilerFrames = (IF frame.shouldDraw THEN 1 ELSE 0)
        /\ frame.drawGLCount = 1

C16_Witness ==
    /\ pc = "ret"
    /\ ~frame.shouldDraw
    /\ frame.profilerFrames = 0
    /\ frame.drawGLCount = 1

(* The modes of a steady run, the mode it started from first. *)
SteadyModes == <<steady.start>> \o steady.modes

(* C17 (under SpecSteady): while the demand and the read-back budget stay  *)
(* the same the mode every selector run after the second commits is the    *)
(* mode the second committed, and the modes never go from                  *)
(* kSingleSurfaceRendering to a richer mode and back, nor from a richer    *)
(* mode to kSingleSurfaceRendering and back.                               *)
C17_NoOscillation ==
    steady.on =>
        /\ \A i \in 3 .. Len(steady.modes) : steady.modes[i] = steady.modes[2]
        /\ \A i, j, k \in 1 .. Len(SteadyModes) :
              (i < j /\ j < k) =>
                  /\ ~(/\ SteadyModes[i] = kSingleSurfaceRendering
                       /\ SteadyModes[j] # kSingleSurfaceRendering
                       /\ SteadyModes[k] = kSingleSurfaceRendering)
                  /\ ~(/\ SteadyModes[i] # kSingleSurfaceRendering
                       /\ SteadyModes[j] = kSingleSurfaceRendering
                       /\ SteadyModes[k] # kSingleSurfaceRendering)

C17_Witness ==
    /\ steady.on
    /\ Len(steady.modes) >= 4
    /\ steady.start = kSingleSurfaceRendering
    /\ steady.modes[1] = kClippedTextures
    /\ steady.modes[2] = kAllTextures
    /\ steady.modes[4] = kAllTextures

(* C18 (under Spec): the flags drawGL returns are the union of needs-draw  *)
(* if prepareTextures left images to upload, of the flags the surface      *)
(* collections' draw returned, and of needs-draw and needs-invoke if the   *)
(* selector returned true; drawGL adds needs-invoke on its own only then.  *)
C18_ReturnedFlags ==
    pc = "ret" =>
        /\ frame.returnFlags =
              (IF frame.imagesPending THEN {"draw"} ELSE {})
                  \cup frame.collectionFlags
                  \cup (IF sel.ret THEN {"draw", "invoke"} ELSE {})
        /\ ("invoke" \in frame.returnFlags
                /\ "invoke" \notin frame.collectionFlags) => sel.ret

C18_Witness ==
    /\ pc = "ret"
    /\ frame.imagesPending
    /\ frame.collectionFlags = {"invoke"}
    /\ ~sel.ret
    /\ frame.returnFlags = {"draw", "invoke"}

(* C19 (under Spec): between two operations, and when drawGL returns, the  *)
(* rendering mode is kAllTextures, kClippedTextures or                     *)
(* kSingleSurfaceRendering.                                                *)
C19_CommittedModes ==
    pc \in {"idle", "ret"} =>
        m_layersRenderingMode \in
            {kAllTextures, kClippedTextures, kSingleSurfaceRendering}

C19_Witness ==
    /\ pc = "ret"
    /\ sel.ran
    /\ sel.candidate = kScrollableAndFixedLayers
    /\ m_layersRenderingMode = kSingleSurfaceRendering

(* C20 (under Spec): when drawGL ends needing a draw the invalidation      *)
(* rectangle is (0,0,0,0), or it is not empty and overlaps the draw        *)
(* rectangle.                                                              *)
C20_InvalOnScreenOrSentinel ==
    DrawGLEndsNeedingDraw =>
        \/ frame.invalRect = ZeroRect
        \/ /\ frame.invalRect.w > 0
           /\ frame.invalRect.h > 0
           /\ Overlap(frame.invalRect, frame.rect)

C20_Witness ==
    /\ DrawGLEndsNeedingDraw
    /\ BoundingUnion(reported) # ZeroRect
    /\ ~Overlap(Outset(BoundingUnion(reported), InvalInflate), frame.rect)
    /\ frame.invalRect = ZeroRect

=============================================================================
